---- MODULE Spec2Model ----
(***************************************************************************)
(* Optional<T> (optional.h): a container holding zero or one T, iterable   *)
(* through a linked sentinel node.  The model keeps the memory the class   *)
(* works on: every Optional object embeds a sentinel Item (m_end) and a    *)
(* pointer to a heap Item (m_container); iterators hold one Item pointer.  *)
(***************************************************************************)
EXTENDS Integers, FiniteSets, Sequences, TLC

\* ------------------------------------------------------------------ bounds
MaxContainers == 2      \* Optional objects the program creates
MaxVal == 2             \* values of T are 0..MaxVal (0: default T / null pointer)
MaxSteps == 2           \* operator++ applications one traversal is followed for

\* ------------------------------------------------------------ memory layout
NULL == 0
Cont == 1..MaxContainers
Val == 0..MaxVal
\* Address of the sentinel Item embedded in Optional object c (&m_end).
EndAddr(c) == c
\* Address `new Item` returns inside update() of object c: a fresh heap address.
NewItem(c) == MaxContainers + c
HeapAddr == {NewItem(c) : c \in Cont}
Addr == Cont \cup HeapAddr
Addr0 == Addr \cup {NULL}
\* Objects a T = P* can point to.  Object 1 lives on the caller's stack (the
\* string s of optionaltest.cpp whose address is passed in); the others were
\* allocated with new by the caller and handed to the container.
Obj == 1..MaxVal
StackObj == 1
NoVal == -1
\* The payload of an Item whose T was default-initialised and never assigned:
\* for a scalar T its value is indeterminate, and every read chooses one.
Indet == -2

VARIABLES
  ptrT,         \* the instantiation: TRUE when T is a raw pointer type
  life,         \* life[c]: "unborn", "live", "dead" (destroyed), "failed" (ctor threw)
  m_container,  \* m_container[c]: Item* of object c
  mem,          \* mem[a]: the Item at address a, [next, data]; mem[EndAddr(c)] is c.m_end
  heap,         \* heap[a]: "unalloc", "live" or "freed", for heap Items
  deletes,      \* deletes[a]: how often delete ran on heap Item a
  objDeletes,   \* objDeletes[o]: how often pointerDelete deleted object o
  updates,      \* updates[c]: how often a constructor of object c entered update()
  it,           \* the caller's iterator variable (or NoIt)
  ret           \* the last call: operation, object, argument, result, error

vars == <<ptrT, life, m_container, mem, heap, deletes, objDeletes, updates, it, ret>>
objVars == <<life, m_container, mem, heap, deletes, objDeletes, updates>>

NoIt == [c |-> 0, node |-> NULL]
Call(op, c, arg, val, b, err) ==
  [op |-> op, c |-> c, arg |-> arg, val |-> val, b |-> b, err |-> err]

\* An Item the program may still read: a sentinel of a live object or a live heap Item.
IsLiveAddr(a) ==
  IF a \in Cont THEN life[a] = "live" ELSE a \in HeapAddr /\ heap[a] = "live"

\* What a read of the Item at address a can give.  Reading a destroyed Item is
\* undefined: any contents.
ReadItem(a) ==
  IF ~IsLiveAddr(a) THEN [next : Addr, data : Val]
  ELSE IF mem[a].data = Indet THEN [next : {mem[a].next}, data : Val]
  ELSE {mem[a]}

\* ----------------------------------------------------- pointer helpers
\* pointerInit: a pointer payload becomes nullptr; any other T is left as its
\* default initialisation made it.
pointerInit ==
  IF ptrT THEN NULL ELSE Indet

\* pointerDelete(p): delete p when T is a pointer type and p is not null.
pointerDelete(od, p) ==
  IF ptrT /\ p # NULL THEN [od EXCEPT ![p] = @ + 1] ELSE od

\* Item(): next(this), data initialised by pointerInit.
ItemCtor(self) == [next |-> self, data |-> pointerInit]

Init ==
  /\ ptrT \in BOOLEAN
  /\ life = [c \in Cont |-> "unborn"]
  /\ m_container = [c \in Cont |-> NULL]
  /\ mem = [a \in Addr |-> [next |-> NULL, data |-> 0]]
  /\ heap = [a \in HeapAddr |-> "unalloc"]
  /\ deletes = [a \in HeapAddr |-> 0]
  /\ objDeletes = [o \in Obj |-> 0]
  /\ updates = [c \in Cont |-> 0]
  /\ it = NoIt
  /\ ret = Call("init", 0, NoVal, NoVal, FALSE, "none")

Running == ret.err # "crash"

\* Optional(): m_end(), m_container(nullptr).
DefaultCtor(c) ==
  /\ Running /\ life[c] = "unborn"
  /\ mem' = [mem EXCEPT ![EndAddr(c)] = ItemCtor(EndAddr(c))]
  /\ m_container' = [m_container EXCEPT ![c] = NULL]
  /\ life' = [life EXCEPT ![c] = "live"]
  /\ ret' = Call("default", c, NoVal, NoVal, FALSE, "none")
  /\ UNCHANGED <<ptrT, heap, deletes, objDeletes, updates, it>>

\* T data(std::forward<Args>(args)...): the T built from constructor arguments
\* a.  For a pointer T the argument is the pointer itself; for a class T the
\* constructor converts its argument (as std::string(const char*) does).
TFromArgs(a) ==
  IF ptrT THEN a ELSE MaxVal - a

\* The steps of update() that can throw, by instantiation: T's constructor,
\* `new Item` (allocation or T's default constructor), T's move assignment.
Failures ==
  IF ptrT THEN {"none", "bad_alloc"}
          ELSE {"none", "TCtorError", "bad_alloc", "TMoveError"}

\* update() that links the new Item but leaves out
\* m_container->data = std::move(data).
update_without_move(mc, endRec, self, fresh, t, f) ==
  IF f = "TCtorError" \/ mc # NULL \/ f = "bad_alloc" THEN
    [err |-> IF f = "TCtorError" THEN f ELSE IF mc # NULL THEN "FaultedState" ELSE f,
     mc |-> mc, end |-> endRec, alloc |-> FALSE, item |-> [next |-> NULL, data |-> 0]]
  ELSE
    [err |-> "none", mc |-> fresh, end |-> [endRec EXCEPT !.next = fresh],
     alloc |-> TRUE, item |-> [next |-> self, data |-> pointerInit]]

\* update() without the test `if (m_container) throw`.
update_without_guard(mc, endRec, self, fresh, t, f) ==
  IF f \in {"TCtorError", "bad_alloc"} THEN
    [err |-> f, mc |-> mc, end |-> endRec, alloc |-> FALSE,
     item |-> [next |-> NULL, data |-> 0]]
  ELSE IF f = "TMoveError" THEN
    [err |-> "TMoveError", mc |-> fresh, end |-> endRec, alloc |-> TRUE,
     item |-> ItemCtor(fresh)]
  ELSE
    [err |-> "none", mc |-> fresh, end |-> [endRec EXCEPT !.next = fresh],
     alloc |-> TRUE, item |-> [next |-> self, data |-> t]]

\* update(args...) on an object whose members are mc (m_container) and endRec
\* (m_end, at address self); fresh is the address `new Item` returns, t the T
\* built from the arguments, f the step that throws.  Result: the error thrown, the members
\* afterwards, and the heap Item allocated (alloc) with its contents.
update(mc, endRec, self, fresh, t, f) ==
  IF f = "TCtorError" THEN
    [err |-> "TCtorError", mc |-> mc, end |-> endRec, alloc |-> FALSE,
     item |-> [next |-> NULL, data |-> 0]]
  ELSE IF mc # NULL THEN
    [err |-> "FaultedState", mc |-> mc, end |-> endRec, alloc |-> FALSE,
     item |-> [next |-> NULL, data |-> 0]]
  ELSE IF f = "bad_alloc" THEN
    [err |-> "bad_alloc", mc |-> mc, end |-> endRec, alloc |-> FALSE,
     item |-> [next |-> NULL, data |-> 0]]
  ELSE IF f = "TMoveError" THEN
    [err |-> "TMoveError", mc |-> fresh, end |-> endRec, alloc |-> TRUE,
     item |-> ItemCtor(fresh)]
  ELSE
    [err |-> "none", mc |-> fresh, end |-> [endRec EXCEPT !.next = fresh],
     alloc |-> TRUE, item |-> [next |-> self, data |-> t]]

\* The effect of an update() result r on object c.
Apply(c, r) ==
  /\ m_container' = [m_container EXCEPT ![c] = r.mc]
  /\ mem' = [mem EXCEPT ![EndAddr(c)] = r.end,
                        ![NewItem(c)] = IF r.alloc THEN r.item ELSE @]
  /\ heap' = IF r.alloc THEN [heap EXCEPT ![NewItem(c)] = "live"] ELSE heap

\* A constructor that initialises m_end(), m_container(nullptr) and calls
\* update().  When update() throws, the constructor exits by the exception:
\* the members are destroyed (~Item of m_end), ~Optional does not run.
Construct(c, op, arg, t, f) ==
  /\ Running /\ life[c] = "unborn"
  /\ LET r == update(NULL, ItemCtor(EndAddr(c)), EndAddr(c), NewItem(c), t, f)
     IN  /\ Apply(c, r)
         /\ life' = [life EXCEPT ![c] = IF r.err = "none" THEN "live" ELSE "failed"]
         /\ objDeletes' = IF r.err = "none" THEN objDeletes
                          ELSE pointerDelete(objDeletes, r.end.data)
         /\ ret' = Call(op, c, arg, NoVal, FALSE, r.err)
  /\ updates' = [updates EXCEPT ![c] = @ + 1]
  /\ UNCHANGED <<ptrT, deletes, it>>

\* explicit Optional(const T& data)
ValueCtor(c, v, f) ==
  Construct(c, "value", v, v, f)

\* template <typename... Args> Optional(Args&&... args)
EmplaceCtor(c, a, f) ==
  Construct(c, "emplace", a, TFromArgs(a), f)

\* The implicitly defined copy constructor Optional(const Optional&):
\* memberwise copy of m_end (next, data) and of the pointer m_container.
CopyCtor(c, src) ==
  /\ Running /\ life[c] = "unborn" /\ life[src] = "live"
  /\ mem' = [mem EXCEPT ![EndAddr(c)] = mem[EndAddr(src)]]
  /\ m_container' = [m_container EXCEPT ![c] = m_container[src]]
  /\ life' = [life EXCEPT ![c] = "live"]
  /\ ret' = Call("copy", c, src, NoVal, FALSE, "none")
  /\ UNCHANGED <<ptrT, heap, deletes, objDeletes, updates, it>>

\* The implicitly defined copy assignment operator=(const Optional&):
\* memberwise assignment of m_end and m_container.
Assign(c, src) ==
  /\ Running /\ life[c] = "live" /\ life[src] = "live"
  /\ mem' = [mem EXCEPT ![EndAddr(c)] = mem[EndAddr(src)]]
  /\ m_container' = [m_container EXCEPT ![c] = m_container[src]]
  /\ ret' = Call("assign", c, src, NoVal, FALSE, "none")
  /\ UNCHANGED <<ptrT, life, heap, deletes, objDeletes, updates, it>>

\* ~Optional(): delete m_container (which runs ~Item of the heap Item:
\* pointerDelete(data)), then the member m_end is destroyed (~Item again).
\* Deleting an Item that was deleted before, deleting an object that was
\* deleted before and deleting an object on the caller's stack are undefined:
\* the program either goes on (crash = FALSE) or is aborted (crash = TRUE).
\* The contents of the destroyed Items stop being program state and are
\* cleared; a later read through a dangling pointer gets any contents.
Destroy(c, crash) ==
  /\ Running /\ life[c] = "live"
  /\ LET a == m_container[c]
     IN  \E d \in (IF a = NULL THEN {NULL} ELSE {rec.data : rec \in ReadItem(a)}) :
           LET od1 == IF a = NULL THEN objDeletes
                                  ELSE pointerDelete(objDeletes, d)
               od2 == pointerDelete(od1, mem[EndAddr(c)].data)
               undefined ==
                 \/ a # NULL /\ heap[a] # "live"
                 \/ \E o \in Obj : od2[o] > objDeletes[o]
                                   /\ (o = StackObj \/ od2[o] > 1)
           IN  /\ crash => undefined
               /\ objDeletes' = od2
               /\ heap' = IF a = NULL THEN heap ELSE [heap EXCEPT ![a] = "freed"]
               /\ deletes' = IF a = NULL THEN deletes
                             ELSE [deletes EXCEPT ![a] = @ + 1]
               /\ mem' = [x \in Addr |->
                            IF x = EndAddr(c) \/ x = a
                            THEN [next |-> NULL, data |-> 0] ELSE mem[x]]
               /\ ret' = Call("destroy", c, NoVal, NoVal, FALSE,
                              IF crash THEN "crash" ELSE "none")
  /\ life' = [life EXCEPT ![c] = "dead"]
  /\ it' = IF it.c = c THEN NoIt ELSE it
  /\ UNCHANGED <<ptrT, m_container, updates>>

\* iterator begin(): iterator(m_end.next)
begin(c) == mem[EndAddr(c)].next

\* iterator end(): iterator(&m_end)
end(c) == EndAddr(c)

\* bool empty(): m_container == nullptr
empty(c) == m_container[c] = NULL

\* defined() written as "the sequence is not empty" instead of testing m_container.
defined_by_iteration(c) == begin(c) # end(c)

\* bool defined(): m_container != nullptr
defined(c) == m_container[c] # NULL

\* get() that hands out the sentinel's payload instead of throwing when empty.
get_without_throw(c) ==
  {[val |-> d, err |-> "none"] :
     d \in {rec.data : rec \in ReadItem(IF m_container[c] # NULL THEN m_container[c]
                                                             ELSE EndAddr(c))}}

\* T& get(): the payload of *m_container, or the runtime_error "The Optional
\* needs to be set before access".  The set of outcomes: one for a live Item,
\* any value or a crash when m_container dangles.
get(c) ==
  IF m_container[c] # NULL
  THEN {[val |-> d, err |-> "none"] :
          d \in {rec.data : rec \in ReadItem(m_container[c])}}
       \cup (IF IsLiveAddr(m_container[c]) THEN {}
             ELSE {[val |-> NoVal, err |-> "crash"]})
  ELSE {[val |-> NoVal, err |-> "IllegalAccess"]}

\* iterator::operator*(): m_node->data, whatever m_node is.
deref(node) == {rec.data : rec \in ReadItem(node)}

\* iterator::operator++(): m_node = m_node->next
increment(node) == {rec.next : rec \in ReadItem(node)}

\* iterator::operator==(other)
AtEnd(i) == i.node = end(i.c)

\* for (auto it = opt.begin(); it != opt.end(); ++it) { ... *it ... }, and the
\* range-based for: the sequences of values the loop body can see, starting at
\* node.  A loop that has not reached end() after fuel steps is cut there and
\* marked by a trailing NoVal.
RECURSIVE Walk(_, _, _)
Walk(c, node, fuel) ==
  IF node = end(c) THEN {<<>>}
  ELSE IF fuel = 0 THEN {<<NoVal>>}
  ELSE UNION {{<<rec.data>> \o w : w \in Walk(c, rec.next, fuel - 1)} :
              rec \in ReadItem(node)}

Traverse(c) == Walk(c, begin(c), MaxSteps)

\* One whole loop over object c; ret.val is the number of iterations.
RangeFor(c) ==
  /\ Running /\ life[c] = "live"
  /\ \E w \in Traverse(c) :
       ret' = Call("for", c, NoVal, Len(w), FALSE, "none")
  /\ UNCHANGED <<ptrT, objVars, it>>

CallEmpty(c) ==
  /\ Running /\ life[c] = "live"
  /\ ret' = Call("empty", c, NoVal, NoVal, empty(c), "none")
  /\ UNCHANGED <<ptrT, objVars, it>>

CallDefined(c) ==
  /\ Running /\ life[c] = "live"
  /\ ret' = Call("defined", c, NoVal, NoVal, defined(c), "none")
  /\ UNCHANGED <<ptrT, objVars, it>>

Get(c) ==
  /\ Running /\ life[c] = "live"
  /\ \E g \in get(c) : ret' = Call("get", c, NoVal, g.val, FALSE, g.err)
  /\ UNCHANGED <<ptrT, objVars, it>>

Begin(c) ==
  /\ Running /\ life[c] = "live"
  /\ it' = [c |-> c, node |-> begin(c)]
  /\ ret' = Call("begin", c, NoVal, NoVal, FALSE, "none")
  /\ UNCHANGED <<ptrT, objVars>>

End(c) ==
  /\ Running /\ life[c] = "live"
  /\ ret' = Call("end", c, NoVal, end(c), FALSE, "none")
  /\ UNCHANGED <<ptrT, objVars, it>>

\* ++it on the caller's iterator.
Increment ==
  /\ Running /\ it # NoIt
  /\ \E n \in increment(it.node) :
       it' = [it EXCEPT !.node = n]
  /\ ret' = Call("increment", it.c, NoVal, NoVal, FALSE, "none")
  /\ UNCHANGED <<ptrT, objVars>>

\* *it on the caller's iterator; ret.b records whether it == end() held.
Deref ==
  /\ Running /\ it # NoIt
  /\ \E d \in deref(it.node) :
       ret' = Call("deref", it.c, NoVal, d, AtEnd(it), "none")
  /\ UNCHANGED <<ptrT, objVars, it>>

\* update() entered on an object that is already Set.  No constructor and no
\* public member does this (update is private and called from the two
\* constructors only); the action is the internal misuse the runtime_error
\* "Something bad happened in Optional" is written for.  ret.b records whether
\* the call left every member and the heap as they were.
ReUpdate(c, a, f) ==
  /\ Running /\ life[c] = "live" /\ defined(c)
  /\ LET r == update(m_container[c], mem[EndAddr(c)], EndAddr(c), NewItem(c),
                     TFromArgs(a), f)
     IN  /\ Apply(c, r)
         /\ ret' = Call("update", c, a, NoVal,
                        r.mc = m_container[c] /\ r.end = mem[EndAddr(c)] /\ ~r.alloc,
                        r.err)
  /\ UNCHANGED <<ptrT, life, deletes, objDeletes, updates, it>>

\* Construction, copying, assignment and destruction of Optional objects.
NextObj ==
  \/ \E c \in Cont : DefaultCtor(c)
  \/ \E c \in Cont, v \in Val, f \in Failures : ValueCtor(c, v, f)
  \/ \E c \in Cont, a \in Val, f \in Failures : EmplaceCtor(c, a, f)
  \/ \E c, src \in Cont : CopyCtor(c, src)
  \/ \E c, src \in Cont : Assign(c, src)
  \/ \E c \in Cont, crash \in BOOLEAN : Destroy(c, crash)

\* The calls on the Optional object itself.
NextApi ==
  \/ NextObj
  \/ \E c \in Cont : CallEmpty(c)
  \/ \E c \in Cont : CallDefined(c)
  \/ \E c \in Cont : Get(c)

\* The calls that make and use iterators.
NextIter ==
  \/ \E c \in Cont : Begin(c)
  \/ \E c \in Cont : End(c)
  \/ \E c \in Cont : RangeFor(c)
  \/ Increment
  \/ Deref

Next == NextApi \/ NextIter

NextReUpdate ==
  \/ NextObj
  \/ \E c \in Cont, a \in Val, f \in Failures : ReUpdate(c, a, f)

\* The whole program: any caller of the class.
Spec == Init /\ [][Next]_vars

\* Callers that use no iterators (iterator calls write the caller's iterator
\* and the call record only).
SpecApi == Init /\ [][NextApi]_vars

\* Objects made, copied and destroyed, plus the internal re-entry of update()
\* on a Set object.
SpecReUpdate == Init /\ [][NextReUpdate]_vars

\* -------------------------------------------------------------- properties
Live(c) == life[c] = "live"

\* C1: a traversal from begin() with operator++ until the iterator equals
\* end() takes exactly one step on a Set object, seeing the value get()
\* returns, and no step on an Empty object, every time it is run.
C1_IterationCardinality ==
  \A c \in Cont :
    Live(c) =>
      Traverse(c) = IF defined(c)
                    THEN {<<g.val>> : g \in get(c)}
                    ELSE {<<>>}

\* C2: get() on an Empty object fails with the "needs to be set before access"
\* runtime_error, returns no value, and leaves the object and the heap as
\* they were (so the object is still Empty and get() fails again).
C2_GetOnEmpty ==
  [][\A c \in Cont :
       (ret'.op = "get" /\ ret'.c = c /\ Live(c) /\ empty(c)) =>
         /\ ret'.err = "IllegalAccess"
         /\ ret'.val = NoVal
         /\ UNCHANGED objVars
         /\ empty(c)'
         /\ get(c)' = {[val |-> NoVal, err |-> "IllegalAccess"]}]_vars

C2_Witness ==
  ret.op = "get" /\ ret.err = "IllegalAccess" /\ empty(ret.c)

\* C3: right after construction, a default-constructed object is Empty
\* (empty() true, defined() false); an object constructed from a value of T
\* or from constructor arguments is Set, and get() returns the value
\* supplied, respectively the T built from the arguments.
C3_ConstructionPost ==
  /\ ret.op = "default" => empty(ret.c) /\ ~defined(ret.c)
  /\ (ret.op \in {"value", "emplace"} /\ ret.err = "none") =>
       /\ defined(ret.c) /\ ~empty(ret.c)
       /\ get(ret.c) =
            {[val |-> IF ret.op = "value" THEN ret.arg ELSE TFromArgs(ret.arg),
              err |-> "none"]}

C3_Witness ==
  /\ ret.op = "emplace" /\ ret.err = "none"
  /\ TFromArgs(ret.arg) # ret.arg
  /\ get(ret.c) = {[val |-> TFromArgs(ret.arg), err |-> "none"]}

\* C4: once constructed, no operation open to a user of the object (the
\* queries, get, the iterator calls, assignment of one Optional to another)
\* changes whether the object is Empty or Set, nor the value it stores.
C4_Immutable ==
  [][\A c \in Cont :
       (Live(c) /\ Live(c)') =>
         /\ defined(c)' = defined(c)
         /\ m_container'[c] = m_container[c]
         /\ get(c)' = get(c)]_vars

\* C5: no two live objects refer to the same stored Item; every stored Item
\* is destroyed at most once, is destroyed when the object that allocated it
\* is destroyed, and is not destroyed while a live object still refers to it.
C5_ExclusiveOwnership ==
  /\ \A c1, c2 \in Cont :
       (c1 # c2 /\ Live(c1) /\ Live(c2) /\ m_container[c1] # NULL)
         => m_container[c1] # m_container[c2]
  /\ \A a \in HeapAddr : deletes[a] <= 1
  /\ \A c \in Cont : life[c] = "dead" => heap[NewItem(c)] # "live"
  /\ \A c \in Cont :
       (Live(c) /\ m_container[c] # NULL) => heap[m_container[c]] = "live"

\* C6: in every state of every live object, empty() returns exactly the
\* negation of defined(), and so do the values the two calls hand back.
C6_EmptinessDuality ==
  /\ \A c \in Cont : Live(c) => (empty(c) <=> ~defined(c))
  /\ ret.op = "empty" => (ret.b <=> ~defined(ret.c))
  /\ ret.op = "defined" => (ret.b <=> ~empty(ret.c))

C6_Witness ==
  /\ ret.op = "empty" /\ ret.b /\ ~defined(ret.c)
  /\ \E c \in Cont : Live(c) /\ defined(c) /\ ~empty(c)

\* C7: when a step of value/emplace construction throws, nothing of the
\* attempt survives: no Item stays allocated, m_container is not left
\* non-null, the sentinel is not left linked to the Item.
C7_ConstructionAtomic ==
  \A c \in Cont :
    life[c] = "failed" =>
      /\ heap[NewItem(c)] # "live"
      /\ m_container[c] = NULL
      /\ mem[EndAddr(c)].next # NewItem(c)

\* C8: no operator* applied to an iterator that compares equal to end()
\* yields a reference to a value; end() is one position per object and never
\* the position of the stored Item.
C8_NoSentinelDeref ==
  /\ (ret.op = "deref" /\ ret.err = "none") => ~ret.b
  /\ \A c \in Cont : Live(c) => end(c) # m_container[c]

\* C9: for a pointer T the sentinel's payload is null, no pointed-to object
\* is released more than once, and an object the caller still owns (the
\* stack string of the demonstration) is never released by the container.
C9_PointerPayload ==
  ptrT =>
    /\ \A c \in Cont : Live(c) => mem[EndAddr(c)].data = NULL
    /\ \A o \in Obj : objDeletes[o] <= 1
    /\ objDeletes[StackObj] = 0

\* C10 as stated: the constructors enter update() at most once per object,
\* and update() entered on a Set object fails with the FaultedState
\* runtime_error and leaves the members and the heap as they were.
C10_Original ==
  /\ \A c \in Cont : updates[c] <= 1
  /\ ret.op = "update" => (ret.err = "FaultedState" /\ ret.b)

\* C10 as amended: the constructors enter update() at most once per object,
\* and update() entered on a Set object fails and leaves the members and the
\* heap as they were; the error is the FaultedState runtime_error unless T's
\* constructor, which runs before the test, throws, and then it is that error.
C10_NoReSet ==
  /\ \A c \in Cont : updates[c] <= 1
  /\ ret.op = "update" => (ret.err \in {"FaultedState", "TCtorError"} /\ ret.b)

C10_Witness ==
  ret.op = "update" /\ ret.err = "FaultedState" /\ ret.b /\ defined(ret.c)
====
